---- MODULE Spec2Model ----
(***************************************************************************)
(* Model of clean_images.py: the PNG chunk scanner and report              *)
(* (analizar_png, reporte_png), the metadata-stripping reconstruction      *)
(* (clean_image_metadata) and the command-line driver loop (main).         *)
(*                                                                         *)
(* Three state machines share the module:                                  *)
(*   SpecScan   one PNG buffer scanned iteration by iteration, then        *)
(*              reported;                                                  *)
(*   SpecClean  one call of clean_image_metadata;                          *)
(*   SpecRun    main's loop over the --input arguments.                    *)
(***************************************************************************)
EXTENDS Integers, Sequences, FiniteSets, TLC

VARIABLES
    \* ---- analizar_png / reporte_png ----
    segments,    \* the segment list the input file was written from
    data,        \* analizar_png: data = f.read()
    i,           \* analizar_png: cursor
    chunks,      \* analizar_png: list of (ctype, length)
    scanOutcome, \* how analizar_png ended: "running", "returned" or the error raised
    lines,       \* reporte_png: the per-chunk lines printed
    eliminado,   \* reporte_png: estimated saving
    pc,          \* position in reporte_png / analizar_png
    \* ---- clean_image_metadata ----
    call,        \* arguments and file-system inputs of the call
    res,         \* what the call did
    \* ---- main ----
    args,        \* parsed command line: input, output_dir, report
    k,           \* index into args.input (1-based)
    j,           \* index into the sorted directory listing (0: not in a directory)
    log,         \* terminal status lines printed so far
    events,      \* file-system effects so far
    dirExists,   \* does args.output_dir exist
    mpc          \* position of main

scanVars == <<segments, data, i, chunks, scanOutcome, lines, eliminado, pc>>
cleanVars == <<call, res>>
runVars == <<args, k, j, log, events, dirExists, mpc>>
vars == <<scanVars, cleanVars, runVars>>

(***************************************************************************)
(* Placeholders for the parts a specification does not exercise            *)
(***************************************************************************)
IdleScan ==
    /\ segments = <<>> /\ data = <<>> /\ i = 0 /\ chunks = <<>>
    /\ scanOutcome = "idle" /\ lines = <<>> /\ eliminado = 0 /\ pc = "idle"

IdleClean == call = <<>> /\ res = <<>>

IdleRun ==
    /\ args = <<>> /\ k = 0 /\ j = 0 /\ log = <<>> /\ events = <<>>
    /\ dirExists = FALSE /\ mpc = "idle"

(***************************************************************************)
(* Bounds                                                                  *)
(***************************************************************************)
MaxSegs == 2
MaxPayload == 1

(***************************************************************************)
(* Generic helpers                                                         *)
(***************************************************************************)
Min(a, b) == IF a < b THEN a ELSE b

BoundedSeq(S, n) == UNION {[1..m -> S] : m \in 0..n}

RECURSIVE Flatten(_)
Flatten(ss) == IF ss = <<>> THEN <<>> ELSE Head(ss) \o Flatten(Tail(ss))

\* Python slice data[a:b] (0-based, clamped to the buffer, never raises)
Slice(d, a, b) == SubSeq(d, a + 1, Min(b, Len(d)))

\* int.from_bytes(bs, "big"); the empty slice gives 0
RECURSIVE IntFromBytes(_)
IntFromBytes(bs) ==
    IF bs = <<>> THEN 0
    ELSE 256 * IntFromBytes(SubSeq(bs, 1, Len(bs) - 1)) + bs[Len(bs)]

(***************************************************************************)
(* The PNG container as analizar_png reads it                              *)
(***************************************************************************)
IHDR == <<73, 72, 68, 82>>
IDAT == <<73, 68, 65, 84>>
IEND == <<73, 69, 78, 68>>
tEXt == <<116, 69, 88, 116>>
tIME == <<116, 73, 77, 69>>

\* the types the enumerated buffers are written with (ScenarioA adds tIME)
ChunkTypes == {IHDR, IDAT, IEND, tEXt}

SignatureLen == 8
Signature == <<137, 80, 78, 71, 13, 10, 26, 10>>

\* 4-byte big-endian length field
U32(n) == << (n \div 16777216) % 256, (n \div 65536) % 256, (n \div 256) % 256, n % 256 >>

Zeros(n) == [x \in 1..n |-> 0]

\* one chunk on disk: length, type, payload, crc
ChunkBytes(seg) == U32(seg[2]) \o seg[1] \o Zeros(seg[2]) \o Zeros(4)

Container(segs) == Signature \o Flatten([x \in 1..Len(segs) |-> ChunkBytes(segs[x])])

ScenarioA == << <<IHDR, 13>>, <<tEXt, 40>>, <<IDAT, 5000>>, <<tIME, 7>>, <<IEND, 0>> >>

SegLists == BoundedSeq(ChunkTypes \X (0..MaxPayload), MaxSegs)

\* a buffer is well formed when the signature is followed by complete chunks
RECURSIVE CompleteChunksFrom(_, _)
CompleteChunksFrom(d, pos) ==
    IF pos = Len(d) THEN TRUE
    ELSE /\ pos + 8 <= Len(d)
         /\ pos + 12 + IntFromBytes(Slice(d, pos, pos + 4)) <= Len(d)
         /\ CompleteChunksFrom(d, pos + 12 + IntFromBytes(Slice(d, pos, pos + 4)))

WellFormed(d) == Len(d) >= SignatureLen /\ CompleteChunksFrom(d, SignatureLen)

(***************************************************************************)
(* analizar_png                                                            *)
(***************************************************************************)
ReadLength(d, pos) == IntFromBytes(Slice(d, pos, pos + 4))

\* bytes.decode("latin-1") maps each byte to the code point of the same value
ReadType(d, pos) == Slice(d, pos + 4, pos + 8)

NextCursorNoHeader(pos, length) == pos + length

NextCursorNoCrc(pos, length) == pos + 8 + length

NextCursor(pos, length) == pos + 12 + length

ScanStep ==
    /\ pc = "scan"
    /\ i < Len(data)
    /\ LET length == ReadLength(data, i)
           ctype == ReadType(data, i)
       IN /\ chunks' = Append(chunks, <<ctype, length>>)
          /\ i' = NextCursor(i, length)
    /\ UNCHANGED <<segments, data, scanOutcome, lines, eliminado, pc>>
    /\ UNCHANGED <<cleanVars, runVars>>

ScanReturn ==
    /\ pc = "scan"
    /\ ~(i < Len(data))
    /\ scanOutcome' = "returned"
    /\ pc' = "report"
    /\ UNCHANGED <<segments, data, i, chunks, lines, eliminado>>
    /\ UNCHANGED <<cleanVars, runVars>>

(***************************************************************************)
(* reporte_png                                                             *)
(***************************************************************************)
CriticalNoIEND == {IHDR, IDAT}

Critical == {IHDR, IDAT, IEND}

Disposition(ctype) == IF ctype \in Critical THEN "conservado" ELSE "eliminado"

RECURSIVE Ahorro(_)
Ahorro(cs) ==
    IF cs = <<>> THEN 0
    ELSE LET c == cs[Len(cs)]
             rest == Ahorro(SubSeq(cs, 1, Len(cs) - 1))
         IN IF Disposition(c[1]) = "conservado" THEN rest ELSE rest + c[2]

ReportePng ==
    /\ pc = "report"
    /\ lines' = [x \in 1..Len(chunks) |->
                    <<chunks[x][1], chunks[x][2], Disposition(chunks[x][1])>>]
    /\ eliminado' = Ahorro(chunks)
    /\ pc' = "done"
    /\ UNCHANGED <<segments, data, i, chunks, scanOutcome>>
    /\ UNCHANGED <<cleanVars, runVars>>

(***************************************************************************)
(* Paths (pathlib) and images (Pillow) as clean_image_metadata uses them   *)
(***************************************************************************)
None == <<>>

NoneDir == "<None>"

LowerChar(c) ==
    CASE c = "A" -> "a" [] c = "J" -> "j" [] c = "P" -> "p" [] c = "G" -> "g"
      [] c = "E" -> "e" [] c = "N" -> "n" [] OTHER -> c

Lower(str) == [x \in 1..Len(str) |-> LowerChar(str[x])]

\* str.rfind("."): 0-based index of the last dot, -1 when there is none
RECURSIVE RFindDot(_)
RFindDot(name) ==
    IF name = <<>> THEN -1
    ELSE IF name[Len(name)] = "." THEN Len(name) - 1
    ELSE RFindDot(SubSeq(name, 1, Len(name) - 1))

\* PurePath.suffix: a leading or a trailing dot starts no suffix
Suffix(name) ==
    LET d == RFindDot(name)
    IN IF 0 < d /\ d < Len(name) - 1 THEN SubSeq(name, d + 1, Len(name)) ELSE <<>>

\* PurePath.stem
Stem(name) ==
    LET d == RFindDot(name)
    IN IF 0 < d /\ d < Len(name) - 1 THEN SubSeq(name, 1, d) ELSE name

CleanSuffix == <<"_", "c", "l", "e", "a", "n">>

CleanNameNoSuffix(name) == Stem(name) \o Suffix(name)

\* f"{image_path.stem}_clean{image_path.suffix}"
CleanName(name) == Stem(name) \o CleanSuffix \o Suffix(name)

JpegSuffixes == { <<".", "j", "p", "g">>, <<".", "j", "p", "e", "g">> }

IsJpegTarget(name) == Lower(Suffix(name)) \in JpegSuffixes

\* the modes Pillow documents for an opened image
ImageModes == {"1", "L", "LA", "La", "P", "PA", "RGB", "RGBA", "RGBa", "CMYK"}

AlphaOrPaletteModes == {"LA", "La", "P", "PA", "RGBA", "RGBa"}

\* img.info.get("transparency"): None when the key is absent
TransparencyValues == {None, <<0>>, <<255>>}

HasTransparencyTruthy(info) == info.transparency # None /\ info.transparency # <<0>>

HasTransparency(info) == info.transparency # None

NoInfo == [transparency |-> None, metadata |-> FALSE]

NoImage == [obj |-> 0, mode |-> "", size |-> <<0, 0>>, info |-> NoInfo]

NoPath == [parent |-> NoneDir, name |-> <<>>]

NoSave == [called |-> FALSE, img |-> NoImage, path |-> NoPath, format |-> "",
           quality |-> 0, optimize |-> FALSE]

JpegQuality == 95

\* Image.convert(mode): a new image object, same size, info carried over
Convert(img, mode, obj) == [obj |-> obj, mode |-> mode, size |-> img.size, info |-> img.info]

\* Image.copy(): a new image object with the same mode, size and info
Copy(img, obj) == [img EXCEPT !.obj = obj]

\* Image.new(mode, size): a new image object with an empty info table
New(mode, size, obj) == [obj |-> obj, mode |-> mode, size |-> size, info |-> NoInfo]

\* lines 135-138
JpegMode(clean_img) ==
    IF clean_img.mode \in {"RGBA", "LA", "P"}
    THEN Convert(clean_img, "RGB", clean_img.obj + 1)
    ELSE clean_img

NoResult ==
    [ status |-> "none", mkdir |-> FALSE, created |-> FALSE, exists |-> FALSE,
      output_path |-> NoPath, img_converted |-> NoImage, clean_img |-> NoImage,
      save |-> NoSave, effects |-> <<>>, written |-> {} ]

(***************************************************************************)
(* clean_image_metadata(image_path, output_dir)                            *)
(*   env.img       what Image.open finds in the file                       *)
(*   env.exists    whether output_dir exists when the call starts          *)
(*   env.fail      the step that raises: "none", "mkdir", "open", "save"   *)
(***************************************************************************)
MkdirCalledIfAbsent(output_dir, env) == output_dir # NoneDir /\ ~env.exists

\* lines 113-114: if output_dir: output_dir.mkdir(parents=True, exist_ok=True)
MkdirCalled(output_dir, env) == output_dir # NoneDir

CleanImageMetadata(image_path, output_dir, env) ==
    LET useDir == MkdirCalled(output_dir, env)
        mkdirRaised == useDir /\ env.fail = "mkdir"
        output_path ==
            IF mkdirRaised THEN NoPath
            ELSE IF output_dir # NoneDir
                 THEN [parent |-> output_dir, name |-> CleanName(image_path.name)]
                 ELSE [parent |-> image_path.parent, name |-> CleanName(image_path.name)]
        opened == ~mkdirRaised /\ env.fail # "open"
        img == env.img
        target_mode == IF HasTransparency(img.info) THEN "RGBA" ELSE "RGB"
        img_converted ==
            IF img.mode = "P" THEN Convert(img, target_mode, img.obj + 1)
            ELSE Copy(img, img.obj + 1)
        clean_img == New(img_converted.mode, img_converted.size, img_converted.obj + 1)
        jpeg == IsJpegTarget(image_path.name)
        save_img == IF jpeg THEN JpegMode(clean_img) ELSE clean_img
        save ==
            IF ~opened THEN NoSave
            ELSE IF jpeg
                 THEN [called |-> TRUE, img |-> save_img, path |-> output_path,
                       format |-> "JPEG", quality |-> JpegQuality, optimize |-> TRUE]
                 ELSE [called |-> TRUE, img |-> save_img, path |-> output_path,
                       format |-> "", quality |-> 0, optimize |-> FALSE]
        saved == opened /\ env.fail # "save"
    IN [ status |-> IF saved THEN "SUCCESS" ELSE "FAILED",
         mkdir |-> useDir,
         created |-> useDir /\ ~mkdirRaised /\ ~env.exists,
         exists |-> IF useDir /\ ~mkdirRaised THEN TRUE ELSE env.exists,
         output_path |-> output_path,
         img_converted |-> IF opened THEN img_converted ELSE NoImage,
         clean_img |-> IF opened THEN clean_img ELSE NoImage,
         save |-> save,
         effects |-> (IF useDir THEN <<"mkdir">> ELSE <<>>)
                     \o (IF useDir /\ ~mkdirRaised /\ ~env.exists THEN <<"create">> ELSE <<>>)
                     \o (IF ~mkdirRaised THEN <<"open">> ELSE <<>>)
                     \o (IF opened THEN <<"save">> ELSE <<>>),
         written |-> IF opened THEN {output_path} ELSE {} ]

(***************************************************************************)
(* SpecClean: one call of clean_image_metadata                             *)
(***************************************************************************)
MaxStem == 1

StemChars == {"a", "."}

Extensions ==
    { <<>>,
      <<".", "j", "p", "g">>, <<".", "J", "P", "G">>,
      <<".", "j", "p", "e", "g">>, <<".", "J", "p", "e", "g">>,
      <<".", "p", "n", "g">>, <<".", "j", "p", "g", ".">> }

FileNames ==
    {s \o e : s \in BoundedSeq(StemChars, MaxStem), e \in Extensions}
        \ {<<>>, <<".">>, <<".", ".">>}

Dirs == {"d", "out"}

Sizes == {<<1, 1>>, <<2, 3>>}

SourceImages ==
    [obj : {1}, mode : ImageModes, size : Sizes,
     info : [transparency : TransparencyValues, metadata : {TRUE}]]

Failures == {"none", "mkdir", "open", "save"}

InitClean ==
    /\ call \in [image_path : [parent : {"d"}, name : FileNames],
                 output_dir : Dirs \cup {NoneDir},
                 env : [img : SourceImages, exists : BOOLEAN, fail : Failures]]
    /\ res = NoResult
    /\ IdleScan /\ IdleRun

Clean ==
    /\ res = NoResult
    /\ res' = CleanImageMetadata(call.image_path, call.output_dir, call.env)
    /\ UNCHANGED <<call, scanVars, runVars>>

NextClean == Clean

SpecClean == InitClean /\ [][NextClean]_vars

(***************************************************************************)
(* SpecScan                                                                *)
(***************************************************************************)
InitScan ==
    /\ segments \in SegLists \cup {ScenarioA}
    /\ \E cut \in 0..Len(Container(segments)) :
          /\ segments = ScenarioA => cut = Len(Container(segments))
          /\ data = SubSeq(Container(segments), 1, cut)
    /\ i = SignatureLen
    /\ chunks = <<>>
    /\ scanOutcome = "running"
    /\ lines = <<>>
    /\ eliminado = 0
    /\ pc = "scan"
    /\ IdleClean /\ IdleRun

NextScan == ScanStep \/ ScanReturn \/ ReportePng

SpecScan == InitScan /\ [][NextScan]_vars

FairSpecScan == SpecScan /\ WF_vars(NextScan)

(***************************************************************************)
(* main: the loop over args.input                                          *)
(***************************************************************************)
MaxInputs == 2
MaxDirFiles == 2

PNG == <<".", "p", "n", "g">>

SUPPORTED_EXTENSIONS ==
    { <<".", "j", "p", "g">>, <<".", "j", "p", "e", "g">>, PNG,
      <<".", "t", "i", "f", "f">>, <<".", "t", "i", "f">>,
      <<".", "b", "m", "p">>, <<".", "g", "i", "f">> }

EXIF_EXTENSIONS ==
    { <<".", "j", "p", "g">>, <<".", "j", "p", "e", "g">>,
      <<".", "t", "i", "f", "f">>, <<".", "t", "i", "f">> }

\* directory entries, listed in the order sorted() gives them
NamesInOrder ==
    << [kind |-> "file", name |-> <<"a", ".", "P", "N", "G">>],
       [kind |-> "file", name |-> <<"d", ".", "t", "x", "t">>],
       [kind |-> "dir",  name |-> <<"e", ".", "p", "n", "g">>] >>

\* regular files named on the command line
TopNames ==
    { <<"a", ".", "P", "N", "G">>, <<"b", ".", "j", "p", "g">>,
      <<"c", ".", "b", "m", "p">>, <<"d", ".", "t", "x", "t">> }

\* sorted(input_path.iterdir())
RECURSIVE SortedListing(_)
SortedListing(S) ==
    IF S = {} THEN <<>>
    ELSE LET m == CHOOSE x \in S : \A y \in S : x <= y
         IN <<NamesInOrder[m]>> \o SortedListing(S \ {m})

Listings ==
    {SortedListing(S) : S \in {T \in SUBSET (1..Len(NamesInOrder)) : Cardinality(T) <= MaxDirFiles}}

NoName == <<>>

InputPaths ==
    {[kind |-> "missing", name |-> NoName, children |-> <<>>],
     [kind |-> "other", name |-> NoName, children |-> <<>>]}
    \cup {[kind |-> "file", name |-> n, children |-> <<>>] : n \in TopNames}
    \cup {[kind |-> "dir", name |-> NoName, children |-> l] : l \in Listings}

RunImages ==
    {img \in SourceImages :
        img.size = <<1, 1>> /\ img.mode = "P" /\ img.info.transparency = None}

\* what the file system answers while one file is processed
ReportEnvs == [io : {"ok", "unreadable", "vanished"}, exif : {"none", "some", "error"}]

CleanEnvs == [img : RunImages, fail : Failures]

NoOutcome == [raised |-> FALSE, status |-> <<>>, effects |-> <<>>, exists |-> FALSE]

\* reporte_png: open() and os.path.getsize() are not guarded
ReportePngOutcome(env) ==
    IF env.io # "ok"
    THEN [NoOutcome EXCEPT !.raised = TRUE]
    ELSE [NoOutcome EXCEPT !.status = <<"SUCCESS">>]

\* reporte_exif: os.path.getsize() is outside the try, Image.open inside it
ReporteExifOutcome(env) ==
    IF env.io = "vanished"
    THEN [NoOutcome EXCEPT !.raised = TRUE]
    ELSE IF env.io = "unreadable" \/ env.exif = "error"
         THEN [NoOutcome EXCEPT !.status = <<"FAILED">>]
         ELSE [NoOutcome EXCEPT !.status = <<"SUCCESS">>]

\* lines 191-199 and 205-213: one supported file, in report or in clean mode
ProcessReport(name, env) ==
    IF Lower(Suffix(name)) = PNG THEN ReportePngOutcome(env)
    ELSE IF Lower(Suffix(name)) \in EXIF_EXTENSIONS THEN ReporteExifOutcome(env)
    ELSE [NoOutcome EXCEPT !.status = <<"SKIPPED">>]

ProcessClean(name, env) ==
    LET r == CleanImageMetadata([parent |-> "d", name |-> name], args.output_dir,
                                [img |-> env.img, exists |-> dirExists, fail |-> env.fail])
    IN [raised |-> FALSE, status |-> <<r.status>>, effects |-> r.effects, exists |-> r.exists]

Supported(name) == Lower(Suffix(name)) \in SUPPORTED_EXTENSIONS

\* the effect of one processed file on main's state
Apply(o, name) ==
    /\ log' = log \o [x \in 1..Len(o.status) |->
                         [k |-> k, j |-> j, name |-> name, status |-> o.status[x]]]
    /\ events' = events \o [x \in 1..Len(o.effects) |-> [op |-> o.effects[x], k |-> k, j |-> j]]
    /\ dirExists' = IF args.report THEN dirExists ELSE o.exists
    /\ mpc' = IF o.raised THEN "crashed" ELSE "loop"

Process(name) ==
    IF args.report
    THEN \E env \in ReportEnvs : Apply(ProcessReport(name, env), name)
    ELSE \E env \in CleanEnvs : Apply(ProcessClean(name, env), name)

AtInput == mpc = "loop" /\ k <= Len(args.input) /\ j = 0

\* lines 181-183
PathMissing ==
    /\ AtInput /\ args.input[k].kind = "missing"
    /\ log' = Append(log, [k |-> k, j |-> 0, name |-> NoName, status |-> "SKIPPED"])
    /\ k' = k + 1
    /\ UNCHANGED <<args, j, events, dirExists, mpc, scanVars, cleanVars>>

\* lines 185-188
EnterDir ==
    /\ AtInput /\ args.input[k].kind = "dir"
    /\ j' = 1
    /\ UNCHANGED <<args, k, log, events, dirExists, mpc, scanVars, cleanVars>>

InDir == mpc = "loop" /\ k <= Len(args.input) /\ j >= 1

\* lines 189-199
DirItem ==
    /\ InDir /\ j <= Len(args.input[k].children)
    /\ LET item == args.input[k].children[j]
       IN IF item.kind = "file" /\ Supported(item.name)
          THEN Process(item.name)
          ELSE UNCHANGED <<log, events, dirExists, mpc>>
    /\ j' = IF mpc' = "crashed" THEN j ELSE j + 1
    /\ UNCHANGED <<args, k, scanVars, cleanVars>>

\* lines 200-201
LeaveDir ==
    /\ InDir /\ j > Len(args.input[k].children)
    /\ j' = 0 /\ k' = k + 1
    /\ UNCHANGED <<args, log, events, dirExists, mpc, scanVars, cleanVars>>

\* lines 203-215
TopFile ==
    /\ AtInput /\ args.input[k].kind = "file"
    /\ IF Supported(args.input[k].name)
       THEN Process(args.input[k].name)
       ELSE /\ log' = Append(log, [k |-> k, j |-> 0, name |-> args.input[k].name,
                                   status |-> "SKIPPED"])
            /\ UNCHANGED <<events, dirExists, mpc>>
    /\ k' = IF mpc' = "crashed" THEN k ELSE k + 1
    /\ UNCHANGED <<args, j, scanVars, cleanVars>>

\* a path that exists but is neither a directory nor a regular file
TopOther ==
    /\ AtInput /\ args.input[k].kind = "other"
    /\ k' = k + 1
    /\ UNCHANGED <<args, j, log, events, dirExists, mpc, scanVars, cleanVars>>

Finish ==
    /\ mpc = "loop" /\ k > Len(args.input)
    /\ mpc' = "done"
    /\ UNCHANGED <<args, k, j, log, events, dirExists, scanVars, cleanVars>>

InitRun ==
    /\ args \in [input : BoundedSeq(InputPaths, MaxInputs) \ {<<>>},
                 output_dir : {NoneDir, "out"},
                 report : BOOLEAN]
    /\ k = 1 /\ j = 0
    /\ log = <<>> /\ events = <<>>
    /\ dirExists \in BOOLEAN
    /\ (args.output_dir = NoneDir \/ args.report) => dirExists = FALSE
    /\ mpc = "loop"
    /\ IdleScan /\ IdleClean

NextRun == PathMissing \/ EnterDir \/ DirItem \/ LeaveDir \/ TopFile \/ TopOther \/ Finish

SpecRun == InitRun /\ [][NextRun]_vars

(***************************************************************************)
(* Properties of the scanner and the report                                *)
(***************************************************************************)
\* the buffer has its signature but its chunk stream is cut short
Truncated(d) == Len(d) >= SignatureLen /\ ~CompleteChunksFrom(d, SignatureLen)

\* the chunks that lie completely inside the buffer, up to the first that does not
RECURSIVE CompletePrefix(_, _)
CompletePrefix(d, pos) ==
    IF pos >= Len(d) \/ pos + 8 > Len(d) \/ pos + 12 + ReadLength(d, pos) > Len(d)
    THEN <<>>
    ELSE << <<ReadType(d, pos), ReadLength(d, pos)>> >>
            \o CompletePrefix(d, pos + 12 + ReadLength(d, pos))

ScanEnded == pc \in {"report", "done"}

\* C3: when the chunk stream is truncated (a header cut short, or a declared
\* length reaching past the end of the buffer) the scan ends with a
\* MalformedContainer error and keeps exactly the chunks parsed before the
\* bad one, none of them built from a partial read.
C3_TruncationRaisesMalformedContainer ==
    (ScanEnded /\ Truncated(data)) =>
        /\ scanOutcome = "MalformedContainer"
        /\ chunks = CompletePrefix(data, SignatureLen)

RECURSIVE SumSpan(_)
SumSpan(cs) == IF cs = <<>> THEN 0 ELSE (Head(cs)[2] + 12) + SumSpan(Tail(cs))

\* C4: for a well-formed container the scanner returns every segment once,
\* in file order, and 8 + sum(declared_length + 12) is the container's size.
C4_WellFormedRoundTrip ==
    (ScanEnded /\ WellFormed(data)) =>
        /\ SignatureLen + SumSpan(chunks) = Len(data)
        /\ \E m \in 0..Len(segments) :
              /\ data = Container(SubSeq(segments, 1, m))
              /\ chunks = SubSeq(segments, 1, m)

C4_Witness ==
    /\ pc = "done" /\ WellFormed(data)
    /\ Len(chunks) = 2 /\ chunks = segments
    /\ chunks[1][2] > 0

RECURSIVE SumLengths(_, _)
SumLengths(cs, idx) ==
    IF idx = {} THEN 0
    ELSE LET x == CHOOSE y \in idx : TRUE
         IN cs[x][2] + SumLengths(cs, idx \ {x})

Ancillary(cs) == {x \in 1..Len(cs) : cs[x][1] \notin {IHDR, IDAT, IEND}}

Removed(ls) == SelectSeq(ls, LAMBDA l : l[3] = "eliminado")

\* C5: every chunk gets exactly one disposition, kept for IHDR, IDAT and
\* IEND and removed for any other type; the estimate is the sum of the
\* declared lengths of the removed chunks, zero when all are critical; and
\* IHDR(13) tEXt(40) IDAT(5000) tIME(7) IEND(0) gives 47 with tEXt and tIME
\* removed.
C5_EstimateIsAncillarySum ==
    pc = "done" =>
        /\ Len(lines) = Len(chunks)
        /\ \A x \in 1..Len(chunks) :
              /\ lines[x][1] = chunks[x][1] /\ lines[x][2] = chunks[x][2]
              /\ lines[x][3] \in {"conservado", "eliminado"}
              /\ lines[x][3] = "conservado" <=> chunks[x][1] \in {IHDR, IDAT, IEND}
        /\ eliminado = SumLengths(chunks, Ancillary(chunks))
        /\ (Ancillary(chunks) = {} => eliminado = 0)
        /\ (chunks = ScenarioA =>
               /\ eliminado = 47
               /\ Removed(lines) = << <<tEXt, 40, "eliminado">>, <<tIME, 7, "eliminado">> >>)

C5_Witness == pc = "done" /\ chunks = ScenarioA /\ eliminado = 47

CursorAdvances ==
    /\ (pc = "scan" /\ i < Len(data)) =>
          /\ i' >= i + 12
          /\ Len(chunks') = Len(chunks) + 1
          /\ pc' = "scan"
    /\ (pc = "scan" /\ i >= Len(data)) => (pc' # "scan" /\ i' = i /\ chunks' = chunks)
    /\ pc # "scan" => (i' = i /\ chunks' = chunks)

\* C8: the cursor starts at 8, every iteration moves it forward by at least
\* 12 and emits one segment, the loop is left as soon as the cursor reaches
\* the buffer length, and every scan ends.
C8_ScanIsFinite ==
    /\ i = SignatureLen /\ chunks = <<>>
    /\ [][CursorAdvances]_vars
    /\ [](SignatureLen + 12 * Len(chunks) <= i)
    /\ <>(pc = "done")

C8_Witness ==
    /\ pc = "done" /\ Truncated(data)
    /\ Len(chunks) = 2 /\ i > Len(data)

(***************************************************************************)
(* Properties of clean_image_metadata                                      *)
(***************************************************************************)
Decoded == res.status # "none" /\ res.clean_img # NoImage

\* C6: a palette source with a transparency entry is rebuilt as RGBA, a
\* palette source without one as RGB, any other source in its own mode; the
\* palette is resolved before the copy, and the rebuilt image has the
\* source's size and is a new object without the source's info table.
C6_ReconstructionMode ==
    Decoded =>
        LET src == call.env.img
        IN /\ (src.mode = "P" /\ src.info.transparency # None) => res.clean_img.mode = "RGBA"
           /\ (src.mode = "P" /\ src.info.transparency = None) => res.clean_img.mode = "RGB"
           /\ src.mode # "P" => res.clean_img.mode = src.mode
           /\ res.img_converted.mode = res.clean_img.mode
           /\ res.clean_img.size = src.size
           /\ res.clean_img.obj \notin {src.obj, res.img_converted.obj}
           /\ res.img_converted.obj # src.obj
           /\ res.clean_img.info = NoInfo

C6_Witness ==
    /\ res.status = "SUCCESS"
    /\ call.env.img.mode = "P" /\ call.env.img.info.transparency = <<0>>
    /\ res.clean_img.mode = "RGBA" /\ res.clean_img.size = <<2, 3>>

\* C7: for a .jpg/.jpeg target (any letter case) the image given to the
\* encoder never has an alpha or palette mode and is encoded as JPEG with
\* quality 95 and optimize on; for any other target the rebuilt image is
\* encoded in its own mode.
C7_JpegEncoderGetsNoAlphaOrPalette ==
    res.save.called =>
        IF Lower(Suffix(call.image_path.name)) \in JpegSuffixes
        THEN /\ res.save.img.mode \notin AlphaOrPaletteModes
             /\ res.save.format = "JPEG"
             /\ res.save.quality = 95 /\ res.save.optimize
        ELSE res.save.img = res.clean_img

\* C10: the output path is <stem>_clean<suffix> under the output directory,
\* or beside the source when none is given; it is never the source path, so
\* the call writes nothing to its own source, whether it succeeds or fails.
C10_SourceNeverWritten ==
    res.status # "none" =>
        /\ call.image_path \notin res.written
        /\ res.output_path # call.image_path
        /\ res.written \subseteq {res.output_path}
        /\ res.output_path # NoPath =>
              /\ res.output_path.name =
                    Stem(call.image_path.name) \o CleanSuffix \o Suffix(call.image_path.name)
              /\ res.output_path.parent =
                    IF call.output_dir = NoneDir THEN call.image_path.parent
                    ELSE call.output_dir

C10_Witness ==
    /\ res.status = "SUCCESS"
    /\ call.output_dir = call.image_path.parent
    /\ res.written = {res.output_path}
    /\ res.output_path.parent = call.image_path.parent

(***************************************************************************)
(* Properties of main                                                      *)
(***************************************************************************)
\* C1: no error raised while one item is processed ends the run early: in
\* report and in clean mode the loop is only ever left after the last
\* input has been consumed.
C1_RunNeverEndsEarly ==
    mpc # "loop" => (mpc = "done" /\ k = Len(args.input) + 1 /\ j = 0)

\* the files of a finished run: the paths named on the command line that are
\* missing or regular files, and the regular files listed in named directories
Encountered ==
    {<<a, 0>> : a \in {x \in 1..Len(args.input) : args.input[x].kind \in {"missing", "file"}}}
    \cup {<<a, b>> : a \in {x \in 1..Len(args.input) : args.input[x].kind = "dir"},
                     b \in 1..MaxDirFiles + 1}

IsFileAt(pos) ==
    IF pos[2] = 0 THEN TRUE
    ELSE /\ pos[2] <= Len(args.input[pos[1]].children)
         /\ args.input[pos[1]].children[pos[2]].kind = "file"

StatusCount(pos) == Cardinality({x \in 1..Len(log) : log[x].k = pos[1] /\ log[x].j = pos[2]})

\* C2: when the run has finished, every file it encountered has exactly one
\* terminal status (SUCCESS, SKIPPED or FAILED), whatever its extension.
C2_ExactlyOneStatusPerFile ==
    mpc = "done" =>
        \A pos \in Encountered :
            IsFileAt(pos) =>
                /\ StatusCount(pos) = 1
                /\ \A x \in 1..Len(log) : log[x].status \in {"SUCCESS", "SKIPPED", "FAILED"}

CountOp(op) == Cardinality({x \in 1..Len(events) : events[x].op = op})

\* the items clean_image_metadata has been called for
Cleaned == Cardinality({x \in 1..Len(log) : log[x].status \in {"SUCCESS", "FAILED"}})

\* C9 as claimed: with an output directory, the create-if-absent mkdir is
\* performed at most once in a run, however many items are cleaned.
C9_MkdirAtMostOncePerRun == CountOp("mkdir") <= 1

\* C9 as it holds: with an output directory, mkdir(exist_ok) is called once
\* for every item cleaned, before that item's file is opened or written;
\* at most one of these calls creates the directory, and no output is
\* written without the directory in place.
C9_MkdirOncePerCleanedItem ==
    /\ CountOp("mkdir") = (IF args.output_dir = NoneDir \/ args.report THEN 0 ELSE Cleaned)
    /\ CountOp("create") <= 1
    /\ args.output_dir # NoneDir =>
          \A x \in 1..Len(events) :
              events[x].op = "save" =>
                  /\ \E y \in 1..(x - 1) :
                        /\ events[y].op = "mkdir"
                        /\ events[y].k = events[x].k /\ events[y].j = events[x].j
                  /\ dirExists
    /\ \A x \in 1..Len(events) :
          events[x].op = "create" => (x > 1 /\ events[x - 1].op = "mkdir")

C9_Witness ==
    /\ mpc = "done" /\ args.output_dir # NoneDir /\ ~args.report
    /\ CountOp("mkdir") = 2 /\ CountOp("save") = 2 /\ CountOp("create") = 1

====
